---- MODULE Spec2Model ----
(***************************************************************************)
(* A model of BinarySearchTree<int> (src/bst.h): the node store as a heap  *)
(* of nodes addressed by identifiers, two tree objects owning disjoint     *)
(* parts of it, one iterator held by the caller, and one action per        *)
(* public operation.                                                       *)
(***************************************************************************)
EXTENDS Integers, Sequences, FiniteSets, TLC

\* ------------------------------------------------------------------ bounds
\* the keys are 1..MaxVal
MaxVal == 4
\* the keys used where two trees live side by side, and where the caller
\* holds an iterator or looks keys up
MaxLifeVal == 3
\* the node store holds at most MaxNodes nodes
MaxNodes == 9
\* the nodes allocated at any one time where two trees are modified side
\* by side
MaxLifeNodes == 4
\* the nodes allocated at any one time where a tree and its copy are
\* modified side by side
MaxCopyNodes == 5

\* nullptr
NIL == 0

Val == 1..MaxVal
LifeVal == 1..MaxLifeVal
NodeIds == 1..MaxNodes
Ptr == NodeIds \cup {NIL}
\* the tree objects of the program; "none" is the tree_ of no tree
Trees == {"a", "b"}
\* the by-value parameter `other` of operator= (src/bst.h:164), alive only
\* while an assignment runs
Other == "other"
AllTrees == Trees \cup {Other}
NoTree == "none"

VARIABLES
    data,        \* Node::data of every node identifier (0 when not allocated)
    left,        \* Node::left
    right,       \* Node::right
    parent,      \* Node::parent
    alloc,       \* the node identifiers that are allocated
    root_,       \* BinarySearchTree::root_ of every tree object
    tree_size_,  \* BinarySearchTree::tree_size_ of every tree object
    live,        \* the tree objects that are constructed and not destroyed
    it,          \* the iterator the caller holds: [ptr, tree]
    dangling,    \* the node `it` names was released after `it` was obtained
    op,          \* the last operation called, its arguments and its result
    pc           \* the scenario the caller runs and the calls of it made so far

vars ==
    <<data, left, right, parent, alloc, root_, tree_size_, live, it, dangling,
      op, pc>>

\* The node store and the trees as one value, so that the helpers below can
\* be written as functions from heap to heap.
Heap ==
    [data |-> data, left |-> left, right |-> right, parent |-> parent,
     alloc |-> alloc, root_ |-> root_, tree_size_ |-> tree_size_]

\* ------------------------------------------------------- owning links
\* A std::unique_ptr<Node>& is the place that owns a node: the root_ of a
\* tree, or the left or right member of a node.
RootLink(t) == [kind |-> "root", tree |-> t, node |-> NIL]
LeftLink(n) == [kind |-> "left", tree |-> NoTree, node |-> n]
RightLink(n) == [kind |-> "right", tree |-> NoTree, node |-> n]

\* unique_ptr::get
Get(h, link) ==
    IF link.kind = "root" THEN h.root_[link.tree]
    ELSE IF link.kind = "left" THEN h.left[link.node]
    ELSE h.right[link.node]

\* storing a raw pointer into a link, nothing released
SetLink(h, link, p) ==
    IF link.kind = "root" THEN [h EXCEPT !.root_[link.tree] = p]
    ELSE IF link.kind = "left" THEN [h EXCEPT !.left[link.node] = p]
    ELSE [h EXCEPT !.right[link.node] = p]

\* delete of a node: ~Node destroys right, then left, then the node itself.
\* The fields of released storage are reset: they are never read again
\* except through a dangling pointer, which the model treats separately.
RECURSIVE DeleteNode(_, _)
DeleteNode(h, n) ==
    IF n = NIL THEN h
    ELSE LET h1 == DeleteNode(h, h.right[n])
             h2 == DeleteNode(h1, h.left[n])
         IN [h2 EXCEPT !.alloc = @ \ {n}, !.data[n] = 0, !.left[n] = NIL,
                       !.right[n] = NIL, !.parent[n] = NIL]

\* unique_ptr::reset(): the link becomes null, then the old pointee is deleted
ResetLink(h, link) ==
    LET old == Get(h, link)
    IN DeleteNode(SetLink(h, link, NIL), old)

\* dst = std::move(src): src.release(), then dst.reset(that pointer)
MoveAssignLink(h, dst, src) ==
    LET c == Get(h, src)
        h1 == SetLink(h, src, NIL)
        old == Get(h1, dst)
        h2 == SetLink(h1, dst, c)
    IN DeleteNode(h2, old)

\* std::make_unique<Node>(p, val): a fresh node. Which address operator new
\* returns is the allocator's business (it may or may not be one released
\* before), so an identifier is a name of the node, not its address: the
\* lowest free one is taken. A pointer kept to a released node is therefore
\* not told by its identifier, which a later node may bear; `dangling`
\* records it.
NewNode(h) == CHOOSE n \in NodeIds \ h.alloc : \A m \in NodeIds \ h.alloc : n <= m

MakeNode(h, n, p, val) ==
    [h EXCEPT !.alloc = @ \cup {n}, !.data[n] = val, !.left[n] = NIL,
              !.right[n] = NIL, !.parent[n] = p]

\* ------------------------------------------------------- private helpers
\* find_node descending to the wrong side
RECURSIVE find_node_swapped(_, _, _)
find_node_swapped(h, current, key) ==
    IF current = NIL THEN NIL
    ELSE IF key < h.data[current] THEN find_node_swapped(h, h.right[current], key)
    ELSE IF h.data[current] < key THEN find_node_swapped(h, h.left[current], key)
    ELSE current

RECURSIVE find_node(_, _, _)
find_node(h, current, key) ==
    IF current = NIL THEN NIL
    ELSE IF key < h.data[current] THEN find_node(h, h.left[current], key)
    ELSE IF h.data[current] < key THEN find_node(h, h.right[current], key)
    ELSE current

RECURSIVE find_min(_, _)
find_min(h, node) ==
    IF node = NIL THEN NIL
    ELSE IF h.left[node] # NIL THEN find_min(h, h.left[node])
    ELSE node

RECURSIVE find_max(_, _)
find_max(h, node) ==
    IF node = NIL THEN NIL
    ELSE IF h.right[node] # NIL THEN find_max(h, h.right[node])
    ELSE node

get_parent_link(h, t, node) ==
    IF h.parent[node] = NIL THEN RootLink(t)
    ELSE IF h.left[h.parent[node]] = node THEN LeftLink(h.parent[node])
    ELSE RightLink(h.parent[node])

detach_from_parent(h, t, node) == ResetLink(h, get_parent_link(h, t, node))

\* ------------------------------------------------------------ iterator
\* the climb of successor() with the test of predecessor()
RECURSIVE successor_climb_left(_, _, _)
successor_climb_left(h, ptr, p) ==
    IF p # NIL /\ ptr = h.left[p] THEN successor_climb_left(h, p, h.parent[p])
    ELSE p

\* base_iterator::successor, the climb of lines 71-77
RECURSIVE successor_climb(_, _, _)
successor_climb(h, ptr, p) ==
    IF p # NIL /\ ptr = h.right[p] THEN successor_climb(h, p, h.parent[p])
    ELSE p

\* base_iterator::successor: the new value of ptr_
successor(h, ptr) ==
    IF h.right[ptr] # NIL THEN find_min(h, h.right[ptr])
    ELSE successor_climb(h, ptr, h.parent[ptr])

RECURSIVE predecessor_climb(_, _, _)
predecessor_climb(h, ptr, p) ==
    IF p # NIL /\ ptr = h.left[p] THEN predecessor_climb(h, p, h.parent[p])
    ELSE p

\* base_iterator::predecessor: the new value of ptr_
predecessor(h, ptr) ==
    IF h.left[ptr] # NIL THEN find_max(h, h.left[ptr])
    ELSE predecessor_climb(h, ptr, h.parent[ptr])

\* iterator(p, this)
Iter(p, t) == [ptr |-> p, tree |-> t]

\* BinarySearchTree::empty
empty(h, t) == h.tree_size_[t] = 0

\* ----------------------------------------------------------- traversals
RECURSIVE in_order_helper(_, _)
in_order_helper(h, node) ==
    IF node = NIL THEN <<>>
    ELSE in_order_helper(h, h.left[node]) \o <<h.data[node]>>
             \o in_order_helper(h, h.right[node])

RECURSIVE pre_order_helper(_, _)
pre_order_helper(h, node) ==
    IF node = NIL THEN <<>>
    ELSE <<h.data[node]>> \o pre_order_helper(h, h.left[node])
             \o pre_order_helper(h, h.right[node])

RECURSIVE post_order_helper(_, _)
post_order_helper(h, node) ==
    IF node = NIL THEN <<>>
    ELSE post_order_helper(h, h.left[node]) \o post_order_helper(h, h.right[node])
             \o <<h.data[node]>>

in_order_traversal(h, t) == in_order_helper(h, h.root_[t])
pre_order_traversal(h, t) == pre_order_helper(h, h.root_[t])
post_order_traversal(h, t) == post_order_helper(h, h.root_[t])

\* ------------------------------------------------------------ modifiers
\* the descent loop of emplace sending an equivalent value to the right
RECURSIVE emplace_descend_multiset(_, _, _, _)
emplace_descend_multiset(h, current, par, val) ==
    IF current = NIL THEN [current |-> NIL, parent |-> par]
    ELSE IF val < h.data[current]
    THEN emplace_descend_multiset(h, h.left[current], current, val)
    ELSE emplace_descend_multiset(h, h.right[current], current, val)

\* the descent loop of emplace, lines 250-261: the node equivalent to val
\* (or NIL) and the last node visited
RECURSIVE emplace_descend(_, _, _, _)
emplace_descend(h, current, par, val) ==
    IF current = NIL THEN [current |-> NIL, parent |-> par]
    ELSE IF val < h.data[current] THEN emplace_descend(h, h.left[current], current, val)
    ELSE IF h.data[current] < val THEN emplace_descend(h, h.right[current], current, val)
    ELSE [current |-> current, parent |-> current]

\* lines 263-273 with the new node's parent link left null
emplace_attach_no_parent(h, t, par, val) ==
    LET n == NewNode(h)
        h1 == MakeNode(h, n, NIL, val)
        h2 == IF val < h.data[par] THEN [h1 EXCEPT !.left[par] = n]
              ELSE [h1 EXCEPT !.right[par] = n]
    IN [h |-> [h2 EXCEPT !.tree_size_[t] = @ + 1], ret |-> n, inserted |-> TRUE]

\* lines 263-273: the new node goes under `par`
emplace_attach(h, t, par, val) ==
    LET n == NewNode(h)
        h1 == MakeNode(h, n, par, val)
        h2 == IF val < h.data[par] THEN [h1 EXCEPT !.left[par] = n]
              ELSE [h1 EXCEPT !.right[par] = n]
    IN [h |-> [h2 EXCEPT !.tree_size_[t] = @ + 1], ret |-> n, inserted |-> TRUE]

\* BinarySearchTree::emplace: the heap after, the node of the returned
\* iterator and the returned bool
emplace(h, t, val) ==
    IF h.root_[t] = NIL
    THEN LET n == NewNode(h)
             h1 == MakeNode(h, n, NIL, val)
         IN [h |-> [h1 EXCEPT !.root_[t] = n, !.tree_size_[t] = @ + 1],
             ret |-> n, inserted |-> TRUE]
    ELSE LET d == emplace_descend(h, h.root_[t], NIL, val)
         IN IF d.current # NIL
            THEN [h |-> h, ret |-> d.current, inserted |-> FALSE]
            ELSE emplace_attach(h, t, d.parent, val)

\* erase_node_recursive without line 454: the promoted child keeps the
\* parent pointer it had
RECURSIVE erase_node_recursive_no_parent(_, _, _, _)
erase_node_recursive_no_parent(h, t, current_node, key) ==
    LET cur == Get(h, current_node)
    IN IF cur = NIL THEN h
       ELSE IF key < h.data[cur]
       THEN erase_node_recursive_no_parent(h, t, LeftLink(cur), key)
       ELSE IF h.data[cur] < key
       THEN erase_node_recursive_no_parent(h, t, RightLink(cur), key)
       ELSE IF h.left[cur] = NIL \/ h.right[cur] = NIL
       THEN LET child == IF h.left[cur] # NIL THEN LeftLink(cur) ELSE RightLink(cur)
                h2 == MoveAssignLink(h, current_node, child)
            IN [h2 EXCEPT !.tree_size_[t] = @ - 1]
       ELSE h

\* BinarySearchTree::erase_node_recursive
RECURSIVE erase_node_recursive(_, _, _, _)
erase_node_recursive(h, t, current_node, key) ==
    LET cur == Get(h, current_node)
    IN IF cur = NIL THEN h
       ELSE IF key < h.data[cur]
       THEN erase_node_recursive(h, t, LeftLink(cur), key)
       ELSE IF h.data[cur] < key
       THEN erase_node_recursive(h, t, RightLink(cur), key)
       ELSE IF h.left[cur] = NIL \/ h.right[cur] = NIL
       THEN LET child == IF h.left[cur] # NIL THEN LeftLink(cur) ELSE RightLink(cur)
                c == Get(h, child)
                h1 == IF c # NIL THEN [h EXCEPT !.parent[c] = h.parent[cur]] ELSE h
                h2 == MoveAssignLink(h1, current_node, child)
            IN [h2 EXCEPT !.tree_size_[t] = @ - 1]
       ELSE h

\* erase, case 2 releasing the node together with its subtree
erase_one_child_drop(h, t, node_to_erase) == detach_from_parent(h, t, node_to_erase)

\* erase, case 2 (lines 291-298)
erase_one_child(h, t, node_to_erase) ==
    LET child == IF h.left[node_to_erase] # NIL THEN LeftLink(node_to_erase)
                 ELSE RightLink(node_to_erase)
        h1 == [h EXCEPT !.parent[Get(h, child)] = h.parent[node_to_erase]]
    IN MoveAssignLink(h1, get_parent_link(h1, t, node_to_erase), child)

\* erase, case 3 with the rightmost node of the right subtree taken for the
\* successor
erase_two_children_max(h, t, node_to_erase) ==
    LET succ == find_max(h, h.right[node_to_erase])
        h1 == [h EXCEPT !.data[node_to_erase] = h.data[succ]]
        h2 == erase_node_recursive(h1, t, RightLink(node_to_erase), h1.data[succ])
    IN [h2 EXCEPT !.tree_size_[t] = @ + 1]

\* erase, case 3 without the re-adjustment of line 314
erase_two_children_no_readjust(h, t, node_to_erase) ==
    LET succ == find_min(h, h.right[node_to_erase])
        h1 == [h EXCEPT !.data[node_to_erase] = h.data[succ]]
    IN erase_node_recursive(h1, t, RightLink(node_to_erase), h1.data[succ])

\* erase, case 3 without the overwrite of line 308
erase_two_children_no_overwrite(h, t, node_to_erase) ==
    LET succ == find_min(h, h.right[node_to_erase])
        h2 == erase_node_recursive(h, t, RightLink(node_to_erase), h.data[succ])
    IN [h2 EXCEPT !.tree_size_[t] = @ + 1]

\* erase, case 3 done with the in-order predecessor: the rightmost node of
\* the left subtree gives its value and is removed
erase_two_children_predecessor(h, t, node_to_erase) ==
    LET pred == find_max(h, h.left[node_to_erase])
        h1 == [h EXCEPT !.data[node_to_erase] = h.data[pred]]
        h2 == erase_node_recursive(h1, t, LeftLink(node_to_erase), h1.data[pred])
    IN [h2 EXCEPT !.tree_size_[t] = @ + 1]

\* erase, case 3 (lines 300-315); std::move of an int leaves the
\* successor's data as it was
erase_two_children(h, t, node_to_erase) ==
    LET succ == find_min(h, h.right[node_to_erase])
        h1 == [h EXCEPT !.data[node_to_erase] = h.data[succ]]
        h2 == erase_node_recursive(h1, t, RightLink(node_to_erase), h1.data[succ])
    IN [h2 EXCEPT !.tree_size_[t] = @ + 1]

\* which of the cases of erase the key falls in
erase_case(h, t, key) ==
    LET n == find_node(h, h.root_[t], key)
    IN IF n = NIL THEN "absent"
       ELSE IF h.left[n] = NIL /\ h.right[n] = NIL THEN "leaf"
       ELSE IF h.left[n] = NIL \/ h.right[n] = NIL THEN "one"
       ELSE "two"

\* erase counting an absent key as erased
erase_absent_counted(h, t, key) ==
    LET node_to_erase == find_node(h, h.root_[t], key)
    IN IF node_to_erase = NIL
       THEN [h |-> [h EXCEPT !.tree_size_[t] = @ - 1], ret |-> NIL]
       ELSE LET next_node_it == successor(h, node_to_erase)
                h1 == IF h.left[node_to_erase] = NIL /\ h.right[node_to_erase] = NIL
                      THEN detach_from_parent(h, t, node_to_erase)
                      ELSE IF h.left[node_to_erase] = NIL \/ h.right[node_to_erase] = NIL
                      THEN erase_one_child(h, t, node_to_erase)
                      ELSE erase_two_children(h, t, node_to_erase)
            IN [h |-> [h1 EXCEPT !.tree_size_[t] = @ - 1], ret |-> next_node_it]

\* BinarySearchTree::erase: the heap after and the node of the returned
\* iterator
erase(h, t, key) ==
    LET node_to_erase == find_node(h, h.root_[t], key)
    IN IF node_to_erase = NIL THEN [h |-> h, ret |-> NIL]
       ELSE LET next_node_it == successor(h, node_to_erase)
                h1 == IF h.left[node_to_erase] = NIL /\ h.right[node_to_erase] = NIL
                      THEN detach_from_parent(h, t, node_to_erase)
                      ELSE IF h.left[node_to_erase] = NIL \/ h.right[node_to_erase] = NIL
                      THEN erase_one_child(h, t, node_to_erase)
                      ELSE erase_two_children(h, t, node_to_erase)
            IN [h |-> [h1 EXCEPT !.tree_size_[t] = @ - 1], ret |-> next_node_it]

\* BinarySearchTree::clear
clear(h, t) ==
    LET h1 == ResetLink(h, RootLink(t))
    IN [h1 EXCEPT !.tree_size_[t] = 0]

\* ------------------------------------------------------------ lifecycle
\* BinarySearchTree::copy_helper
RECURSIVE copy_helper(_, _, _)
copy_helper(h, parent_copy, other_node) ==
    LET h1 == IF h.left[other_node] # NIL
              THEN LET n == NewNode(h)
                       g == MakeNode(h, n, parent_copy, h.data[h.left[other_node]])
                   IN copy_helper([g EXCEPT !.left[parent_copy] = n], n, h.left[other_node])
              ELSE h
    IN IF h1.right[other_node] # NIL
       THEN LET n == NewNode(h1)
                g == MakeNode(h1, n, parent_copy, h1.data[h1.right[other_node]])
            IN copy_helper([g EXCEPT !.right[parent_copy] = n], n, h1.right[other_node])
       ELSE h1

\* BinarySearchTree() noexcept
default_construct(h, t) == [h EXCEPT !.root_[t] = NIL, !.tree_size_[t] = 0]

\* a copy constructor that copies the root pointer and the count only
copy_construct_shallow(h, t, other) ==
    [h EXCEPT !.root_[t] = h.root_[other], !.tree_size_[t] = h.tree_size_[other]]

\* BinarySearchTree(const BinarySearchTree &other), constructing `t`
copy_construct(h, t, other) ==
    LET h0 == default_construct(h, t)
    IN IF h0.root_[other] # NIL
       THEN LET n == NewNode(h0)
                h1 == MakeNode(h0, n, NIL, h0.data[h0.root_[other]])
                h2 == copy_helper([h1 EXCEPT !.root_[t] = n], n, h1.root_[other])
            IN [h2 EXCEPT !.tree_size_[t] = h2.tree_size_[other]]
       ELSE h0

\* a move constructor that leaves the source its root and its count
move_construct_keep_source(h, t, other) ==
    [h EXCEPT !.root_[t] = h.root_[other], !.tree_size_[t] = h.tree_size_[other]]

\* BinarySearchTree(BinarySearchTree &&other) noexcept, constructing `t`
move_construct(h, t, other) ==
    LET h1 == [h EXCEPT !.root_[t] = h.root_[other], !.root_[other] = NIL,
                        !.tree_size_[t] = h.tree_size_[other]]
    IN [h1 EXCEPT !.tree_size_[other] = 0]

\* friend void swap(a, b)
swap(h, a, b) ==
    [h EXCEPT !.root_[a] = h.root_[b], !.root_[b] = h.root_[a],
              !.tree_size_[a] = h.tree_size_[b], !.tree_size_[b] = h.tree_size_[a]]

\* ~BinarySearchTree: root_ releases the whole node graph
destroy(h, t) ==
    LET h1 == ResetLink(h, RootLink(t))
    IN [h1 EXCEPT !.tree_size_[t] = 0]

\* operator=(BinarySearchTree other) called with an lvalue: `other` is
\* copy-constructed, swapped in, and destroyed at the end of the call
copy_assign(h, t, src) ==
    destroy(swap(copy_construct(h, Other, src), t, Other), Other)

\* operator=(BinarySearchTree other) called with an rvalue: `other` is
\* move-constructed from the source
move_assign(h, t, src) ==
    destroy(swap(move_construct(h, Other, src), t, Other), Other)

\* ------------------------------------------------------- tree builders
\* A std::vector is a sequence; the element the code calls v[i] (counted
\* from 0) is v[i + 1] here.

\* the std::unordered_map<T, int> the constructors fill: each value of
\* `inorder` mapped to its index, a later index overwriting an earlier one
inorder_map_of(inorder) ==
    [v \in {inorder[i] : i \in 1..Len(inorder)} |->
        (CHOOSE i \in 1..Len(inorder) :
            /\ inorder[i] = v
            /\ \A j \in 1..Len(inorder) : inorder[j] = v => j <= i) - 1]

\* build_from_pre_in storing the two subtrees it built in the wrong members
RECURSIVE build_from_pre_in_mirrored(_, _, _, _, _, _, _)
build_from_pre_in_mirrored(h, preorder, pre_idx, inorder_map, in_start, in_end, par) ==
    IF in_start > in_end
    THEN [h |-> h, idx |-> pre_idx, node |-> NIL]
    ELSE LET root_val == preorder[pre_idx + 1]
             node == NewNode(h)
             h1 == MakeNode(h, node, par, root_val)
             in_root_idx == inorder_map[root_val]
             l == build_from_pre_in_mirrored(h1, preorder, pre_idx + 1, inorder_map,
                                             in_start, in_root_idx - 1, node)
             h2 == SetLink(l.h, RightLink(node), l.node)
             r == build_from_pre_in_mirrored(h2, preorder, l.idx, inorder_map,
                                             in_root_idx + 1, in_end, node)
             h3 == SetLink(r.h, LeftLink(node), r.node)
         IN [h |-> h3, idx |-> r.idx, node |-> node]

\* BinarySearchTree::build_from_pre_in: the heap afterwards, pre_idx
\* afterwards (it is passed by reference) and the node returned
RECURSIVE build_from_pre_in(_, _, _, _, _, _, _)
build_from_pre_in(h, preorder, pre_idx, inorder_map, in_start, in_end, par) ==
    IF in_start > in_end
    THEN [h |-> h, idx |-> pre_idx, node |-> NIL]
    ELSE LET root_val == preorder[pre_idx + 1]
             node == NewNode(h)
             h1 == MakeNode(h, node, par, root_val)
             in_root_idx == inorder_map[root_val]
             l == build_from_pre_in(h1, preorder, pre_idx + 1, inorder_map,
                                    in_start, in_root_idx - 1, node)
             h2 == SetLink(l.h, LeftLink(node), l.node)
             r == build_from_pre_in(h2, preorder, l.idx, inorder_map,
                                    in_root_idx + 1, in_end, node)
             h3 == SetLink(r.h, RightLink(node), r.node)
         IN [h |-> h3, idx |-> r.idx, node |-> node]

\* BinarySearchTree::build_from_post_in: the right subtree is built first
RECURSIVE build_from_post_in(_, _, _, _, _, _, _)
build_from_post_in(h, postorder, post_idx, inorder_map, in_start, in_end, par) ==
    IF in_start > in_end
    THEN [h |-> h, idx |-> post_idx, node |-> NIL]
    ELSE LET root_val == postorder[post_idx + 1]
             node == NewNode(h)
             h1 == MakeNode(h, node, par, root_val)
             in_root_idx == inorder_map[root_val]
             r == build_from_post_in(h1, postorder, post_idx - 1, inorder_map,
                                     in_root_idx + 1, in_end, node)
             h2 == SetLink(r.h, RightLink(node), r.node)
             l == build_from_post_in(h2, postorder, r.idx, inorder_map,
                                     in_start, in_root_idx - 1, node)
             h3 == SetLink(l.h, LeftLink(node), l.node)
         IN [h |-> h3, idx |-> l.idx, node |-> node]

\* a (preorder, inorder) constructor that sets the count before it checks
\* its arguments
construct_pre_in_count_first(h, t, preorder, inorder) ==
    LET h0 == [default_construct(h, t) EXCEPT !.tree_size_[t] = Len(preorder)]
    IN IF Len(preorder) = 0 \/ Len(preorder) # Len(inorder) THEN h0
       ELSE LET b == build_from_pre_in(h0, preorder, 0, inorder_map_of(inorder),
                                       0, Len(inorder) - 1, NIL)
            IN SetLink(b.h, RootLink(t), b.node)

\* BinarySearchTree(preorder, inorder), constructing `t`
construct_pre_in(h, t, preorder, inorder) ==
    LET h0 == default_construct(h, t)
    IN IF Len(preorder) = 0 \/ Len(preorder) # Len(inorder) THEN h0
       ELSE LET b == build_from_pre_in(h0, preorder, 0, inorder_map_of(inorder),
                                       0, Len(inorder) - 1, NIL)
                h1 == SetLink(b.h, RootLink(t), b.node)
            IN [h1 EXCEPT !.tree_size_[t] = Len(preorder)]

\* BinarySearchTree(inorder, postorder, bool), constructing `t`
construct_in_post(h, t, inorder, postorder) ==
    LET h0 == default_construct(h, t)
    IN IF Len(postorder) = 0 \/ Len(postorder) # Len(inorder) THEN h0
       ELSE LET b == build_from_post_in(h0, postorder, Len(postorder) - 1,
                                        inorder_map_of(inorder),
                                        0, Len(inorder) - 1, NIL)
                h1 == SetLink(b.h, RootLink(t), b.node)
            IN [h1 EXCEPT !.tree_size_[t] = Len(postorder)]

\* ------------------------------------------------- iterator operators
\* Reading through a pointer is defined when it is the address of an
\* allocated node; through nullptr or a released node it is undefined
\* behaviour, modelled as any outcome.
Undefined(i) == {Iter(p, i.tree) : p \in Ptr}

\* operator++ (prefix and postfix alike call successor()): the values the
\* iterator may have afterwards
increment(h, i) ==
    IF i.ptr \in h.alloc THEN {Iter(successor(h, i.ptr), i.tree)}
    ELSE Undefined(i)

\* operator--(), prefix
pre_decrement(h, lv, i) ==
    IF i.ptr = NIL
    THEN IF i.tree = NoTree THEN {i}
         ELSE IF i.tree \notin lv THEN Undefined(i)
         ELSE IF ~empty(h, i.tree) THEN {Iter(find_max(h, h.root_[i.tree]), i.tree)}
         ELSE {i}
    ELSE IF i.ptr \in h.alloc THEN {Iter(predecessor(h, i.ptr), i.tree)}
    ELSE Undefined(i)

\* operator--(int), postfix: predecessor() with no test for the end iterator
post_decrement(h, lv, i) ==
    IF i.ptr \in h.alloc THEN {Iter(predecessor(h, i.ptr), i.tree)}
    ELSE Undefined(i)

\* BinarySearchTree::begin and end
begin(h, t) == Iter(find_min(h, h.root_[t]), t)
end(h, t) == Iter(NIL, t)

\* BinarySearchTree::find and contains
find(h, t, key) == Iter(find_node(h, h.root_[t], key), t)
contains(h, t, key) == find_node(h, h.root_[t], key) # NIL

\* --------------------------------------------------------------- state
NoIter == Iter(NIL, NoTree)

\* the log of the last call: its name, the bool it returned (emplace's
\* .second, contains) and the branch it took
Op(name, result, kase) == [name |-> name, result |-> result, kase |-> kase]

Init ==
    /\ data = [n \in NodeIds |-> 0]
    /\ left = [n \in NodeIds |-> NIL]
    /\ right = [n \in NodeIds |-> NIL]
    /\ parent = [n \in NodeIds |-> NIL]
    /\ alloc = {}
    /\ root_ = [t \in AllTrees |-> NIL]
    /\ tree_size_ = [t \in AllTrees |-> 0]
    /\ live = {"a"}
    /\ it = NoIter
    /\ dangling = FALSE
    /\ op = Op("construct", FALSE, "-")
    /\ pc = [scenario |-> "none", step |-> 0]

\* the heap `h` becomes the state
SetHeap(h) ==
    /\ data' = h.data
    /\ left' = h.left
    /\ right' = h.right
    /\ parent' = h.parent
    /\ alloc' = h.alloc
    /\ root_' = h.root_
    /\ tree_size_' = h.tree_size_

heapvars == <<data, left, right, parent, alloc, root_, tree_size_>>

Free == NodeIds \ alloc

\* the pointer of iterator `i` is not null and is the address of no node
\* of the allocated set `al`
Released(i, al) == i.ptr # NIL /\ i.ptr \notin al

\* the caller keeps its iterator through a call: it dangles from the call
\* that releases its node on, whatever is allocated later
KeepIter ==
    /\ it' = it
    /\ dangling' = (dangling \/ Released(it, alloc'))

\* the caller stores the iterator `i` the call returns
TakeIter(i) ==
    /\ it' = i
    /\ dangling' = Released(i, alloc')

\* the outcomes of an operator that reads through `it`: any, when the node
\* of `it` was released, even if its storage has been handed out again
Through(outcomes) == IF dangling THEN Undefined(it) ELSE outcomes

\* --------------------------------------------------------------- actions
\* auto r = t.emplace(val); it = r.first  (insert(val) is emplace(val).first)
Emplace(t, val) ==
    /\ t \in live
    /\ find_node(Heap, root_[t], val) # NIL \/ Free # {}
    /\ LET r == emplace(Heap, t, val)
       IN /\ SetHeap(r.h)
          /\ TakeIter(Iter(r.ret, t))
          /\ op' = Op("emplace", r.inserted, "-")
    /\ UNCHANGED live
    /\ UNCHANGED pc

\* it = t.erase(key)
Erase(t, key) ==
    /\ t \in live
    /\ LET r == erase(Heap, t, key)
       IN /\ SetHeap(r.h)
          /\ TakeIter(Iter(r.ret, t))
          /\ op' = Op("erase", FALSE, erase_case(Heap, t, key))
    /\ UNCHANGED live
    /\ UNCHANGED pc

\* t.insert(val); as a statement: the returned iterator is dropped
Insert(t, val) ==
    /\ t \in live
    /\ find_node(Heap, root_[t], val) # NIL \/ Free # {}
    /\ LET r == emplace(Heap, t, val)
       IN /\ SetHeap(r.h)
          /\ op' = Op("insert", r.inserted, "-")
    /\ UNCHANGED live
    /\ KeepIter
    /\ UNCHANGED pc

\* t.erase(key); as a statement: the returned iterator is dropped
EraseStmt(t, key) ==
    /\ t \in live
    /\ LET r == erase(Heap, t, key)
       IN /\ SetHeap(r.h)
          /\ op' = Op("erase;", FALSE, erase_case(Heap, t, key))
    /\ UNCHANGED live
    /\ KeepIter
    /\ UNCHANGED pc

\* t.clear()
Clear(t) ==
    /\ t \in live
    /\ SetHeap(clear(Heap, t))
    /\ op' = Op("clear", FALSE, "-")
    /\ UNCHANGED live
    /\ KeepIter
    /\ UNCHANGED pc

\* it = t.find(key)
Find(t, key) ==
    /\ t \in live
    /\ UNCHANGED <<heapvars, live>>
    /\ TakeIter(find(Heap, t, key))
    /\ op' = Op("find", FALSE, "-")
    /\ UNCHANGED pc

\* t.contains(key)
Contains(t, key) ==
    /\ t \in live
    /\ op' = Op("contains", contains(Heap, t, key), "-")
    /\ UNCHANGED <<heapvars, live>>
    /\ KeepIter
    /\ UNCHANGED pc

\* it = t.begin()
Begin(t) ==
    /\ t \in live
    /\ UNCHANGED <<heapvars, live>>
    /\ TakeIter(begin(Heap, t))
    /\ op' = Op("begin", FALSE, "-")
    /\ UNCHANGED pc

\* it = t.end()
End(t) ==
    /\ t \in live
    /\ UNCHANGED <<heapvars, live>>
    /\ TakeIter(end(Heap, t))
    /\ op' = Op("end", FALSE, "-")
    /\ UNCHANGED pc

\* ++it (the log does not tell the prefix form from the postfix form: they
\* differ in the value returned, which the caller drops)
PreIncrement ==
    /\ UNCHANGED <<heapvars, live>>
    /\ \E i \in Through(increment(Heap, it)) : TakeIter(i)
    /\ op' = Op("++", FALSE, "-")
    /\ UNCHANGED pc

\* it++ (the returned copy of the old iterator is dropped)
PostIncrement ==
    /\ UNCHANGED <<heapvars, live>>
    /\ \E i \in Through(increment(Heap, it)) : TakeIter(i)
    /\ op' = Op("++", FALSE, "-")
    /\ UNCHANGED pc

\* --it
PreDecrement ==
    /\ UNCHANGED <<heapvars, live>>
    /\ \E i \in Through(pre_decrement(Heap, live, it)) : TakeIter(i)
    /\ op' = Op("--", FALSE, "-")
    /\ UNCHANGED pc

\* it-- (the returned copy of the old iterator is dropped)
PostDecrement ==
    /\ UNCHANGED <<heapvars, live>>
    /\ \E i \in Through(post_decrement(Heap, live, it)) : TakeIter(i)
    /\ op' = Op("--", FALSE, "-")
    /\ UNCHANGED pc

\* BinarySearchTree<int> t;
DefaultConstruct(t) ==
    /\ t \notin live
    /\ SetHeap(default_construct(Heap, t))
    /\ live' = live \cup {t}
    /\ op' = Op("construct", FALSE, "-")
    /\ KeepIter
    /\ UNCHANGED pc

\* BinarySearchTree<int> t(src);
CopyConstruct(t, src) ==
    /\ t \notin live
    /\ src \in live
    /\ Len(in_order_traversal(Heap, src)) <= Cardinality(Free)
    /\ SetHeap(copy_construct(Heap, t, src))
    /\ live' = live \cup {t}
    /\ op' = Op("copy_construct", FALSE, "-")
    /\ KeepIter
    /\ UNCHANGED pc

\* BinarySearchTree<int> t(std::move(src));
MoveConstruct(t, src) ==
    /\ t \notin live
    /\ src \in live
    /\ SetHeap(move_construct(Heap, t, src))
    /\ live' = live \cup {t}
    /\ op' = Op("move_construct", FALSE, "-")
    /\ KeepIter
    /\ UNCHANGED pc

\* t = src;
CopyAssign(t, src) ==
    /\ t \in live
    /\ src \in live
    /\ Len(in_order_traversal(Heap, src)) <= Cardinality(Free)
    /\ SetHeap(copy_assign(Heap, t, src))
    /\ op' = Op("copy_assign", FALSE, "-")
    /\ UNCHANGED live
    /\ KeepIter
    /\ UNCHANGED pc

\* t = std::move(src);
MoveAssign(t, src) ==
    /\ t \in live
    /\ src \in live
    /\ SetHeap(move_assign(Heap, t, src))
    /\ op' = Op("move_assign", FALSE, "-")
    /\ UNCHANGED live
    /\ KeepIter
    /\ UNCHANGED pc

\* swap(t, u);
Swap(t, u) ==
    /\ t \in live
    /\ u \in live
    /\ SetHeap(swap(Heap, t, u))
    /\ op' = Op("swap", FALSE, "-")
    /\ UNCHANGED live
    /\ KeepIter
    /\ UNCHANGED pc

\* the end of the scope of t
Destroy(t) ==
    /\ t \in live
    /\ SetHeap(destroy(Heap, t))
    /\ live' = live \ {t}
    /\ op' = Op("destroy", FALSE, "-")
    /\ KeepIter
    /\ UNCHANGED pc

\* the first `n` elements of the vector `v`
Prefix(v, n) == SubSeq(v, 1, n)

\* The pairs of vectors the caller passes to a builder: the first `i`
\* elements of one traversal of `src` and the first `j` of the other. Both
\* whole, they are a valid pair; of different lengths, or both empty, they
\* are a pair the constructor rejects. Pairs of one length that are the
\* traversals of no tree are outside its contract and not passed.
BuilderInput(src, i, j) ==
    LET n == tree_size_[src]
    IN /\ i \in 0..n
       /\ j \in 0..n
       /\ (i = n /\ j = n) \/ i # j

\* BinarySearchTree<int> t(pre, in);  with pre and in taken from `src`
BuildFromPreIn(t, src, i, j) ==
    /\ t \notin live
    /\ src \in live
    /\ BuilderInput(src, i, j)
    /\ i <= Cardinality(Free)
    /\ LET preorder == Prefix(pre_order_traversal(Heap, src), i)
           inorder == Prefix(in_order_traversal(Heap, src), j)
       IN /\ SetHeap(construct_pre_in(Heap, t, preorder, inorder))
          /\ op' = Op("build_pre_in", FALSE,
                      IF Len(preorder) = 0 \/ Len(preorder) # Len(inorder)
                      THEN "return" ELSE "build")
    /\ live' = live \cup {t}
    /\ KeepIter
    /\ UNCHANGED pc

\* BinarySearchTree<int> t(in, post, true);  with in and post taken from `src`
BuildFromInPost(t, src, i, j) ==
    /\ t \notin live
    /\ src \in live
    /\ BuilderInput(src, i, j)
    /\ i <= Cardinality(Free)
    /\ LET postorder == Prefix(post_order_traversal(Heap, src), i)
           inorder == Prefix(in_order_traversal(Heap, src), j)
       IN /\ SetHeap(construct_in_post(Heap, t, inorder, postorder))
          /\ op' = Op("build_in_post", FALSE,
                      IF Len(postorder) = 0 \/ Len(postorder) # Len(inorder)
                      THEN "return" ELSE "build")
    /\ live' = live \cup {t}
    /\ KeepIter
    /\ UNCHANGED pc

\* The modifiers called on one tree, the caller keeping the iterator
\* returned.
Next ==
    \/ \E t \in Trees, val \in Val : Emplace(t, val)
    \/ \E t \in Trees, key \in Val : Erase(t, key)
    \/ \E t \in Trees : Clear(t)

Spec == Init /\ [][Next]_vars

\* The modifiers and the lookups called on one tree.
NextLookup ==
    \/ \E t \in Trees, val \in LifeVal : Emplace(t, val)
    \/ \E t \in Trees, key \in LifeVal : Erase(t, key)
    \/ \E t \in Trees : Clear(t)
    \/ \E t \in Trees, key \in LifeVal : Find(t, key)
    \/ \E t \in Trees, key \in LifeVal : Contains(t, key)

SpecLookup == Init /\ [][NextLookup]_vars

\* The same with the caller walking the tree with its iterator.
NextIter ==
    \/ \E t \in Trees, val \in LifeVal : Emplace(t, val)
    \/ \E t \in Trees, key \in LifeVal : Erase(t, key)
    \/ \E t \in Trees : Clear(t)
    \/ \E t \in Trees : Begin(t)
    \/ \E t \in Trees : End(t)
    \/ PreIncrement
    \/ PostIncrement
    \/ PreDecrement
    \/ PostDecrement

SpecIter == Init /\ [][NextIter]_vars

\* Two tree objects, constructed from and assigned to each other.
LifeRoom(k) == Cardinality(alloc) + k <= MaxLifeNodes

NextLife ==
    \/ \E t \in Trees, val \in LifeVal :
          (contains(Heap, t, val) \/ LifeRoom(1)) /\ Insert(t, val)
    \/ \E t \in Trees, key \in LifeVal : EraseStmt(t, key)
    \/ \E t \in Trees : Clear(t)
    \/ \E t \in Trees : DefaultConstruct(t)
    \/ \E t, src \in Trees : LifeRoom(tree_size_[src]) /\ CopyConstruct(t, src)
    \/ \E t, src \in Trees : MoveConstruct(t, src)
    \/ \E t, src \in Trees : LifeRoom(tree_size_[src]) /\ CopyAssign(t, src)
    \/ \E t, src \in Trees : MoveAssign(t, src)
    \/ \E t, u \in Trees : Swap(t, u)
    \/ \E t \in Trees : Destroy(t)

SpecLife == Init /\ [][NextLife]_vars

\* The calls that construct a tree, as the log names them.
Constructors ==
    {"construct", "copy_construct", "move_construct", "build_pre_in", "build_in_post"}

\* both trees are alive and the second has just been constructed
Assignable == live = Trees /\ op.name \in Constructors

\* the closing brace of the scope of both trees (the later one is destroyed
\* first) and the construction of the next "a"
EndScope ==
    /\ live = Trees
    /\ SetHeap(default_construct(destroy(destroy(Heap, "b"), "a"), "a"))
    /\ live' = {"a"}
    /\ op' = Op("construct", FALSE, "-")
    /\ KeepIter
    /\ UNCHANGED pc

\* Two tree objects: "b" is copy-constructed from "a", either is assigned
\* to the other and either is modified, at any time and for any number of
\* calls, until both leave their scope.
CopyRoom(k) == Cardinality(alloc) + k <= MaxCopyNodes

NextCopy ==
    \/ \E t \in Trees, val \in LifeVal :
          (contains(Heap, t, val) \/ CopyRoom(1)) /\ Insert(t, val)
    \/ \E t \in Trees, key \in LifeVal : EraseStmt(t, key)
    \/ \E t \in Trees : Clear(t)
    \/ \E t, src \in Trees : CopyRoom(tree_size_[src]) /\ CopyConstruct(t, src)
    \/ \E t, src \in Trees : CopyRoom(tree_size_[src]) /\ CopyAssign(t, src)
    \/ EndScope

SpecCopy == Init /\ [][NextCopy]_vars

\* The caller's program with two trees: it builds "a"; makes "b" from it (by
\* a copy, a move, a builder fed with the traversals of "a", whole or cut
\* short, or a default construction); may assign one tree to the other or
\* swap them; then both leave their scope and it starts again.
NextPair ==
    \/ \E val \in LifeVal : live = {"a"} /\ Insert("a", val)
    \/ \E key \in LifeVal : live = {"a"} /\ EraseStmt("a", key)
    \/ live = {"a"} /\ Clear("a")
    \/ \E t \in Trees : DefaultConstruct(t)
    \/ \E t, src \in Trees : CopyConstruct(t, src)
    \/ \E t, src \in Trees : MoveConstruct(t, src)
    \/ \E t, src \in Trees : Assignable /\ CopyAssign(t, src)
    \/ \E t, src \in Trees : Assignable /\ MoveAssign(t, src)
    \/ \E t, u \in Trees : Assignable /\ Swap(t, u)
    \/ EndScope
    \/ \E t, src \in Trees, i, j \in 0..MaxLifeVal : BuildFromPreIn(t, src, i, j)
    \/ \E t, src \in Trees, i, j \in 0..MaxLifeVal : BuildFromInPost(t, src, i, j)

SpecPair == Init /\ [][NextPair]_vars

\* The same program over the whole range of keys, the first tree modified
\* only while it is alone and the builders fed with whole traversals.
NextMake ==
    \/ \E val \in Val : live = {"a"} /\ Insert("a", val)
    \/ \E key \in Val : live = {"a"} /\ EraseStmt("a", key)
    \/ live = {"a"} /\ Clear("a")
    \/ \E t \in Trees : DefaultConstruct(t)
    \/ \E t, src \in Trees : CopyConstruct(t, src)
    \/ \E t, src \in Trees : MoveConstruct(t, src)
    \/ \E t, src \in Trees : Assignable /\ CopyAssign(t, src)
    \/ \E t, src \in Trees : Assignable /\ MoveAssign(t, src)
    \/ EndScope
    \/ \E t, src \in Trees : BuildFromPreIn(t, src, tree_size_[src], tree_size_[src])
    \/ \E t, src \in Trees : BuildFromInPost(t, src, tree_size_[src], tree_size_[src])

SpecMake == Init /\ [][NextMake]_vars

\* The scenarios of the test program, each run on a tree of its own: the
\* keys of test_traversals inserted in turn; the keys of test_erase
\* inserted in turn and then 20 (a leaf), 30 (one child), 50 (the root,
\* two children) and 999 (not stored) erased; and the same keys inserted and
\* 50 alone erased.
Inserting(keys) == [i \in 1..Len(keys) |-> [call |-> "insert", key |-> keys[i]]]
Erasing(keys) == [i \in 1..Len(keys) |-> [call |-> "erase", key |-> keys[i]]]

TraversalKeys == <<10, 5, 15, 3, 7, 12, 18>>
EraseKeys == <<50, 30, 70, 20, 40, 60, 80, 35, 45>>

Scenario ==
    [none |-> <<>>,
     test_traversals |-> Inserting(TraversalKeys),
     test_erase |-> Inserting(EraseKeys) \o Erasing(<<20, 30, 50, 999>>),
     erase_root |-> Inserting(EraseKeys) \o Erasing(<<50>>)]

ScenarioKeys ==
    {TraversalKeys[i] : i \in 1..Len(TraversalKeys)}
        \cup {EraseKeys[i] : i \in 1..Len(EraseKeys)}

\* the scenario under way has made all its calls
Finished == pc.step = Len(Scenario[pc.scenario])

\* the tree of the finished scenario leaves its scope and scenario `s`
\* starts with an empty tree
BeginScenario(s) ==
    /\ Finished
    /\ s # "none"
    /\ SetHeap(default_construct(destroy(Heap, "a"), "a"))
    /\ op' = Op("construct", FALSE, "-")
    /\ pc' = [scenario |-> s, step |-> 0]
    /\ UNCHANGED live
    /\ KeepIter

\* the next call of the scenario: t.insert(key); or t.erase(key);
ScenarioCall ==
    /\ ~Finished
    /\ LET c == Scenario[pc.scenario][pc.step + 1]
       IN IF c.call = "insert"
          THEN LET r == emplace(Heap, "a", c.key)
               IN /\ SetHeap(r.h)
                  /\ op' = Op("insert", r.inserted, "-")
          ELSE /\ SetHeap(erase(Heap, "a", c.key).h)
               /\ op' = Op("erase;", FALSE, erase_case(Heap, "a", c.key))
    /\ pc' = [pc EXCEPT !.step = @ + 1]
    /\ UNCHANGED live
    /\ KeepIter

NextScenario ==
    \/ \E s \in DOMAIN Scenario : BeginScenario(s)
    \/ ScenarioCall
    \/ \E key \in ScenarioKeys : Find("a", key)
    \/ \E key \in ScenarioKeys : Contains("a", key)

SpecScenario == Init /\ [][NextScenario]_vars

\* =================================================================
\* Properties
\* =================================================================
\* A property of the steps of one call is stated of every step that
\* satisfies the call's action; each action logs its name in op, so the
\* name is tested first.
\* the nodes owned, directly or not, by the link holding n
RECURSIVE Reach(_, _)
Reach(h, n) ==
    IF n = NIL THEN {}
    ELSE {n} \cup Reach(h, h.left[n]) \cup Reach(h, h.right[n])

\* the nodes and the stored elements of tree t
NodesOf(t) == Reach(Heap, root_[t])
Values(t) == {data[n] : n \in NodesOf(t)}

\* the sequence s without the element k
SeqRemove(s, k) == SelectSeq(s, LAMBDA x : x # k)

\* C1: in every tree, every node's left subtree holds only smaller values
\* and its right subtree only greater ones, and no value is held by two
\* nodes, whatever emplace, erase and clear calls came before.
C1_Ordering ==
    \A t \in live :
        /\ \A n \in NodesOf(t) :
              /\ \A m \in Reach(Heap, left[n]) : data[m] < data[n]
              /\ \A m \in Reach(Heap, right[n]) : data[m] > data[n]
        /\ \A n, m \in NodesOf(t) : n # m => data[n] # data[m]

\* a two-child erase has just left a tree of three nodes
C1_Witness ==
    /\ op.name = "erase"
    /\ op.kase = "two"
    /\ Cardinality(NodesOf("a")) = 3

\* C2: size() of every tree is the number of nodes reachable from its
\* root, and empty() holds exactly when there is no root, whatever
\* insert, erase, clear, copy and move calls came before.
C2_CachedCount ==
    \A t \in live :
        /\ tree_size_[t] = Cardinality(NodesOf(t))
        /\ empty(Heap, t) <=> root_[t] = NIL

\* a two-child erase in one tree while the other tree holds nodes too
C2_Witness ==
    /\ op.name = "erase;"
    /\ op.kase = "two"
    /\ live = Trees
    /\ \A t \in Trees : root_[t] # NIL

\* C3: erase(k) of a key the tree holds removes exactly k: the in-order
\* sequence afterwards is the one before with k deleted, contains(k) is
\* false and size() is one less.
C3_EraseRemovesKey ==
    [][op'.name = "erase" => \A t \in live, k \in Val :
          (k \in Values(t) /\ Erase(t, k)) =>
              /\ in_order_traversal(Heap, t)' = SeqRemove(in_order_traversal(Heap, t), k)
              /\ ~contains(Heap, t, k)'
              /\ tree_size_'[t] = tree_size_[t] - 1]_vars

\* the root, having two children, has just been erased
C3_Witness ==
    /\ op.name = "erase"
    /\ op.kase = "two"
    /\ Values("a") = {1, 2, 4}
    /\ data[root_["a"]] = 4

\* the node of tree t holding the smallest element greater than v, the
\* greatest element smaller than v, and the maximum; NIL when there is none
NodeAfter(t, v) ==
    LET S == {n \in NodesOf(t) : data[n] > v}
    IN IF S = {} THEN NIL ELSE CHOOSE n \in S : \A m \in S : data[n] <= data[m]

NodeBefore(t, v) ==
    LET S == {n \in NodesOf(t) : data[n] < v}
    IN IF S = {} THEN NIL ELSE CHOOSE n \in S : \A m \in S : data[n] >= data[m]

MaxNode(t) ==
    IF NodesOf(t) = {} THEN NIL
    ELSE CHOOSE n \in NodesOf(t) : \A m \in NodesOf(t) : data[n] >= data[m]

\* the position erase(k) is to return, in the tree as it is now
ErasePositionOK(t, k) ==
    /\ it.tree = t
    /\ it.ptr = NodeAfter(t, k)
    /\ it.ptr # NIL => it.ptr \in alloc

\* C4: erase(k) of a key the tree holds returns, in the tree as it is after
\* the call, the end sentinel when k was the maximum and otherwise a node
\* the tree still owns, holding the smallest element greater than k.
C4_ErasePosition ==
    [][op'.name = "erase" => \A t \in live, k \in Val :
          (k \in Values(t) /\ Erase(t, k)) =>
              ErasePositionOK(t, k)']_vars

\* the last node of the search path of the absent key k below node n
RECURSIVE SearchPathLast(_, _)
SearchPathLast(n, k) ==
    LET c == IF k < data[n] THEN left[n] ELSE right[n]
    IN IF c = NIL THEN n ELSE SearchPathLast(c, k)

\* C5: emplace(k) of a key the tree does not hold returns (position, true),
\* the position being a new node holding k: the root of a tree that was
\* empty, otherwise the child, in a slot that was empty, of the last node
\* of the search path, its parent link set to that node; size() grows by
\* one and every other node keeps its value, its parent and its links.
C5_EmplaceNew ==
    [][op'.name = "emplace" => \A t \in live, k \in Val :
          (k \notin Values(t) /\ Emplace(t, k)) =>
              LET n == it'.ptr
                  p == IF root_[t] = NIL THEN NIL ELSE SearchPathLast(root_[t], k)
              IN /\ op'.result = TRUE
                 /\ it'.tree = t
                 /\ n \in NodeIds \ alloc
                 /\ alloc' = alloc \cup {n}
                 /\ data'[n] = k /\ left'[n] = NIL /\ right'[n] = NIL
                 /\ parent'[n] = p
                 /\ IF p = NIL
                    THEN root_' = [root_ EXCEPT ![t] = n]
                    ELSE /\ root_' = root_
                         /\ IF k < data[p]
                            THEN left[p] = NIL /\ left'[p] = n /\ right'[p] = right[p]
                            ELSE right[p] = NIL /\ right'[p] = n /\ left'[p] = left[p]
                 /\ tree_size_' = [tree_size_ EXCEPT ![t] = @ + 1]
                 /\ \A m \in alloc :
                       /\ data'[m] = data[m]
                       /\ parent'[m] = parent[m]
                       /\ m # p => left'[m] = left[m] /\ right'[m] = right[m]
                 /\ Values(t)' = Values(t) \cup {k}]_vars

\* a new node has just been attached two levels below the root
C5_Witness ==
    /\ op.name = "emplace"
    /\ op.result
    /\ it.ptr \in NodesOf("a")
    /\ parent[it.ptr] # NIL
    /\ parent[parent[it.ptr]] # NIL

\* C6: emplace(k) of a key the tree holds changes no node, no link and not
\* the size, reports false and returns the position of the node holding k;
\* so the size is the number of distinct values inserted.
C6_EmplaceDuplicate ==
    [][op'.name = "emplace" => \A t \in live, k \in Val :
          (k \in Values(t) /\ Emplace(t, k)) =>
              /\ UNCHANGED heapvars
              /\ op'.result = FALSE
              /\ it'.tree = t
              /\ it'.ptr \in NodesOf(t)
              /\ data[it'.ptr] = k
              /\ tree_size_'[t] = Cardinality(Values(t)')]_vars

\* a key held below the root has just been inserted again
C6_Witness ==
    /\ op.name = "emplace"
    /\ ~op.result
    /\ it.ptr \in NodesOf("a")
    /\ it.ptr # root_["a"]

\* C7: erase(k) of a key the tree does not hold returns the end sentinel
\* and changes no node, no link and not the size; the empty tree included.
C7_EraseAbsent ==
    [][op'.name = "erase" => \A t \in live, k \in Val :
          (k \notin Values(t) /\ Erase(t, k)) =>
              /\ UNCHANGED heapvars
              /\ it' = end(Heap, t)]_vars

\* an absent key has just been erased from a tree of three nodes
C7_Witness ==
    /\ op.name = "erase"
    /\ op.kase = "absent"
    /\ it.ptr = NIL
    /\ Cardinality(NodesOf("a")) = 3

\* the elements visited from iterator i on by ++ until end(), at most
\* `fuel` of them
RECURSIVE Walk(_, _)
Walk(i, fuel) ==
    IF i.ptr = NIL \/ fuel = 0 THEN <<>>
    ELSE <<data[i.ptr]>> \o Walk(CHOOSE j \in increment(Heap, i) : TRUE, fuel - 1)

Ascending(s) == \A i \in 1..(Len(s) - 1) : s[i] < s[i + 1]

\* C8: from begin(), ++ visits every stored element once, in strictly
\* ascending order, the sequence in_order_traversal delivers, and reaches
\* end() after size() advances; begin() = end() exactly for the empty
\* tree; and one advance from the node holding v lands on the node holding
\* the smallest element greater than v, or on end().
C8_ForwardIteration ==
    \A t \in live :
        LET w == Walk(begin(Heap, t), MaxNodes + 1)
        IN /\ w = in_order_traversal(Heap, t)
           /\ Ascending(w)
           /\ {w[i] : i \in 1..Len(w)} = Values(t)
           /\ Len(w) = tree_size_[t]
           /\ (begin(Heap, t).ptr = end(Heap, t).ptr) <=> empty(Heap, t)
           /\ \A n \in NodesOf(t) :
                 increment(Heap, Iter(n, t)) = {Iter(NodeAfter(t, data[n]), t)}

\* the iterator has just been advanced from the maximum of a tree of at
\* least three nodes onto end()
C8_Witness ==
    /\ op.name = "++"
    /\ it = end(Heap, "a")
    /\ Cardinality(NodesOf("a")) >= 3

\* C9: in a tree that is not empty, --it and it-- alike move an iterator
\* equal to end() onto the node holding the maximum, and from a node other
\* than the minimum onto the node holding the next smaller element.
C9_RetreatFromEnd ==
    [][(PreDecrement \/ PostDecrement) /\ it.tree \in live =>
          /\ (it.ptr = NIL /\ root_[it.tree] # NIL) => it'.ptr = MaxNode(it.tree)
          /\ (/\ ~dangling
              /\ it.ptr \in NodesOf(it.tree)
              /\ NodeBefore(it.tree, data[it.ptr]) # NIL)
                => it'.ptr = NodeBefore(it.tree, data[it.ptr])]_vars

\* C10: contains(k) is true exactly when k is stored; find(k) returns the
\* position of the node holding k, or the end sentinel when k is not
\* stored; neither changes the tree.
C10_Lookup ==
    [][/\ op'.name = "find" => \A t \in live, k \in LifeVal :
             Find(t, k) =>
                /\ it'.tree = t
                /\ IF k \in Values(t)
                   THEN it'.ptr \in NodesOf(t) /\ data[it'.ptr] = k
                   ELSE it' = end(Heap, t)
                /\ UNCHANGED heapvars
       /\ op'.name = "contains" => \A t \in live, k \in LifeVal :
             Contains(t, k) =>
                /\ op'.result = (k \in Values(t))
                /\ UNCHANGED heapvars]_vars

\* find has just returned a node two levels below the root
C10_Witness ==
    /\ op.name = "find"
    /\ it.ptr \in NodesOf("a")
    /\ parent[it.ptr] # NIL
    /\ parent[parent[it.ptr]] # NIL

\* C11: for a non-empty tree T reached by insertions and erasures, the tree
\* built from (pre-order(T), in-order(T)) has the size of T and the
\* post-order and in-order sequences of T, and the tree built from
\* (in-order(T), post-order(T)) has the size of T and the pre-order and
\* in-order sequences of T: both builders reproduce the shape of T.
C11_TraversalRoundTrip ==
    [][/\ op'.name = "build_pre_in" => \A t, src \in Trees :
             (root_[src] # NIL
                /\ BuildFromPreIn(t, src, tree_size_[src], tree_size_[src])) =>
                /\ tree_size_'[t] = tree_size_[src]
                /\ post_order_traversal(Heap, t)' = post_order_traversal(Heap, src)
                /\ in_order_traversal(Heap, t)' = in_order_traversal(Heap, src)
                /\ NodesOf(t)' \cap NodesOf(src) = {}
       /\ op'.name = "build_in_post" => \A t, src \in Trees :
             (root_[src] # NIL
                /\ BuildFromInPost(t, src, tree_size_[src], tree_size_[src])) =>
                /\ tree_size_'[t] = tree_size_[src]
                /\ pre_order_traversal(Heap, t)' = pre_order_traversal(Heap, src)
                /\ in_order_traversal(Heap, t)' = in_order_traversal(Heap, src)
                /\ NodesOf(t)' \cap NodesOf(src) = {}]_vars

\* a tree whose root has a right child with a left child has just been
\* rebuilt from its pre-order and in-order sequences
C11_Witness ==
    /\ op.name = "build_pre_in"
    /\ op.kase = "build"
    /\ pre_order_traversal(Heap, "a") = <<1, 3, 2>>
    /\ pre_order_traversal(Heap, "b") = <<1, 3, 2>>
    /\ tree_size_["b"] = 3

\* tree u is after the step what it was before: the same root, count and
\* nodes, each node still allocated with the same value and links
Intact(u) ==
    /\ root_'[u] = root_[u]
    /\ tree_size_'[u] = tree_size_[u]
    /\ NodesOf(u)' = NodesOf(u)
    /\ \A n \in NodesOf(u) :
          /\ n \in alloc'
          /\ data'[n] = data[n]
          /\ left'[n] = left[n]
          /\ right'[n] = right[n]
          /\ parent'[n] = parent[n]

\* tree t after the step has the size, shape and values tree src had before
\* it, on nodes that src does not own
CopyOf(t, src) ==
    /\ tree_size_'[t] = tree_size_[src]
    /\ pre_order_traversal(Heap, t)' = pre_order_traversal(Heap, src)
    /\ in_order_traversal(Heap, t)' = in_order_traversal(Heap, src)
    /\ Cardinality(NodesOf(t)') = tree_size_[src]
    /\ NodesOf(t)' \cap NodesOf(src)' = {}

\* the step is a call of insert, erase or clear on tree t
Modifies(t) ==
    \/ \E v \in LifeVal : Insert(t, v) \/ EraseStmt(t, v)
    \/ Clear(t)

MovedFrom(t, src) ==
    /\ tree_size_'[src] = 0
    /\ root_'[src] = NIL
    /\ empty(Heap, src)'
    /\ begin(Heap, src)' = end(Heap, src)'
    /\ tree_size_'[t] = tree_size_[src]
    /\ root_'[t] = root_[src]
    /\ NodesOf(t)' = NodesOf(src)
    /\ pre_order_traversal(Heap, t)' = pre_order_traversal(Heap, src)
    /\ in_order_traversal(Heap, t)' = in_order_traversal(Heap, src)
    /\ \A n \in NodesOf(src) :
          /\ n \in alloc'
          /\ data'[n] = data[n]
          /\ left'[n] = left[n]
          /\ right'[n] = right[n]
          /\ parent'[n] = parent[n]

\* C13: after move construction, and after move assignment into another
\* tree that may hold nodes, the source is empty (size 0, no root, begin()
\* equal to end()) and the destination holds exactly the elements, shape
\* and size the source had; the nodes the destination held before are
\* released and part of neither tree.
C13_Move ==
    [][/\ op'.name = "move_construct" => \A t, src \in Trees :
             MoveConstruct(t, src) => MovedFrom(t, src) /\ alloc' = alloc
       /\ op'.name = "move_assign" => \A t, src \in Trees :
             (t # src /\ MoveAssign(t, src)) =>
                /\ MovedFrom(t, src)
                /\ NodesOf(t) \cap alloc' = {}
                /\ NodesOf(t) \cap (NodesOf(t)' \cup NodesOf(src)') = {}
                /\ alloc' = alloc \ NodesOf(t)]_vars

\* "a", which held three nodes, has just been move-assigned the three nodes
\* of "b": the lowest three identifiers, those of its former nodes, are free
C13_Witness ==
    /\ op.name = "move_assign"
    /\ live = Trees
    /\ root_["b"] = NIL
    /\ tree_size_["a"] = 3
    /\ alloc = NodesOf("a")
    /\ {1, 2, 3} \cap alloc = {}

\* tree t has just been constructed empty, nothing allocated for it
BuiltEmpty(t) ==
    /\ t \in live'
    /\ tree_size_'[t] = 0
    /\ root_'[t] = NIL
    /\ empty(Heap, t)'
    /\ begin(Heap, t)' = end(Heap, t)'
    /\ alloc' = alloc

\* C14: constructing a tree from a (pre-order, in-order) or an (in-order,
\* post-order) pair of sequences of different lengths, or with an empty
\* traversal sequence, returns normally with an empty tree: size 0, empty()
\* true, begin() equal to end().
C14_RejectedPair ==
    [][/\ op'.name = "build_pre_in" => \A t, src \in Trees :
             \A i, j \in 0..tree_size_[src] :
                ((i = 0 \/ i # j) /\ BuildFromPreIn(t, src, i, j)) => BuiltEmpty(t)
       /\ op'.name = "build_in_post" => \A t, src \in Trees :
             \A i, j \in 0..tree_size_[src] :
                ((i = 0 \/ i # j) /\ BuildFromInPost(t, src, i, j)) => BuiltEmpty(t)]_vars

\* the (in-order, post-order) constructor, given sequences cut from those of
\* a three-node tree, has just returned without building
C14_Witness ==
    /\ op.name = "build_in_post"
    /\ op.kase = "return"
    /\ live = Trees
    /\ tree_size_["a"] = 3
    /\ root_["b"] = NIL

\* the in-order sequence of the tree once scenario `s` has made all its calls
AfterScenario(s, sequence) ==
    (pc.scenario = s /\ Finished) => in_order_traversal(Heap, "a") = sequence

\* the in-order sequence of the tree once scenario `s` has made `n` calls
AfterCall(s, n, sequence) ==
    (pc.scenario = s /\ pc.step = n) => in_order_traversal(Heap, "a") = sequence

\* C15, as stated: 10,5,15,3,7,12,18 inserted in that order have the
\* in-order sequence 3,5,7,10,12,15,18; and 50,30,70,20,40,60,80,35,45
\* inserted in that order, 50 (the root, two children) then erased, have the
\* in-order sequence 35,40,45,60,70,80.
C15_ScenarioAsStated ==
    /\ AfterScenario("test_traversals", <<3, 5, 7, 10, 12, 15, 18>>)
    /\ AfterScenario("erase_root", <<35, 40, 45, 60, 70, 80>>)

\* C15, amended: 10,5,15,3,7,12,18 inserted in that order have the in-order
\* sequence 3,5,7,10,12,15,18; 50,30,70,20,40,60,80,35,45 inserted in that
\* order and then 20, 30 and 50 erased in that order have the in-order
\* sequence 35,40,45,60,70,80; with 50 alone erased they have the in-order
\* sequence 20,30,35,40,45,60,70,80.
C15_Scenario ==
    /\ AfterScenario("test_traversals", <<3, 5, 7, 10, 12, 15, 18>>)
    /\ AfterCall("test_erase", Len(EraseKeys) + 3, <<35, 40, 45, 60, 70, 80>>)
    /\ AfterScenario("test_erase", <<35, 40, 45, 60, 70, 80>>)
    /\ AfterScenario("erase_root", <<20, 30, 35, 40, 45, 60, 70, 80>>)

\* the third erase of test_erase, that of the root with its two children,
\* has just returned
C15_Witness ==
    /\ pc.scenario = "test_erase"
    /\ pc.step = Len(EraseKeys) + 3
    /\ op.name = "erase;"
    /\ op.kase = "two"
    /\ tree_size_["a"] = 6

\* the links that hold node n: roots, left members and right members
Owners(n) ==
    {RootLink(t) : t \in {u \in AllTrees : root_[u] = n}}
        \cup {LeftLink(m) : m \in {k \in alloc : left[k] = n}}
        \cup {RightLink(m) : m \in {k \in alloc : right[k] = n}}

\* every root is parentless, every allocated node is held by exactly one
\* link and, unless a root holds it, by a member of the node its parent
\* pointer names, and every allocated node is reachable from a live root
ParentLinksConsistent ==
    /\ \A t \in live : root_[t] # NIL => root_[t] \in alloc /\ parent[root_[t]] = NIL
    /\ \A n \in alloc :
          /\ Cardinality(Owners(n)) = 1
          /\ left[n] # NIL => left[n] \in alloc /\ parent[left[n]] = n
          /\ right[n] # NIL => right[n] \in alloc /\ parent[right[n]] = n
          /\ (\A t \in AllTrees : root_[t] # n) =>
                /\ parent[n] \in alloc
                /\ left[parent[n]] = n \/ right[parent[n]] = n
    /\ alloc = UNION {NodesOf(t) : t \in live}

\* the leftmost node of the subtree of n
RECURSIVE Leftmost(_)
Leftmost(n) == IF left[n] = NIL THEN n ELSE Leftmost(left[n])

\* the link that holds node n of tree t
OwnerOf(t, n) ==
    IF root_[t] = n THEN RootLink(t)
    ELSE IF left[parent[n]] = n THEN LeftLink(parent[n])
    ELSE RightLink(parent[n])

\* the node the link holds after the step
HeldAfter(link) ==
    IF link.kind = "root" THEN root_'[link.tree]
    ELSE IF link.kind = "left" THEN left'[link.node]
    ELSE right'[link.node]

\* after the step node c has the parent and the owning link node n had
Promoted(t, c, n) ==
    /\ c \in alloc'
    /\ parent'[c] = parent[n]
    /\ HeldAfter(OwnerOf(t, n)) = c

\* an erase that removes a node with one child (the node of the key, or the
\* successor of a node with two children) gives that child the parent and
\* the place of the node removed
ChildRepointed ==
    op'.name = "erase;" => \A t \in live, k \in Val :
        (k \in Values(t) /\ EraseStmt(t, k)) =>
            LET n == find_node(Heap, root_[t], k)
                s == Leftmost(right[n])
            IN /\ (left[n] # NIL /\ right[n] = NIL) => Promoted(t, left[n], n)
               /\ (left[n] = NIL /\ right[n] # NIL) => Promoted(t, right[n], n)
               /\ (left[n] # NIL /\ right[n] # NIL /\ right[s] # NIL) =>
                     Promoted(t, right[s], s)

\* C16: after every emplace/insert, erase and clear, after every copy and
\* move, and after every construction from a valid traversal pair, each
\* root has no parent, each other node's parent pointer names the node whose
\* left or right member holds it, and each node is held by exactly one link
\* and reachable from a root; and the child promoted by the erase of a node
\* with one child, directly or as the successor of a node with two
\* children, gets the parent of the node removed.
C16_ParentLinks == []ParentLinksConsistent /\ [][ChildRepointed]_vars

\* the root 2 of the tree 2(1, 3(-, 4)) has just been erased: the node of 3
\* is released and the node of 4, its right child, hangs under the root
C16_Witness ==
    /\ op.name = "erase;"
    /\ op.kase = "two"
    /\ alloc = {1, 2, 4}
    /\ root_["a"] = 1
    /\ data[1] = 3
    /\ right[1] = 4
    /\ data[4] = 4
    /\ parent[4] = 1

\* C17: erase(k) of a key whose node n has two children leaves n where it
\* is (same parent, same left child) holding the value of its in-order
\* successor; the one node released is s, the leftmost node of the right
\* subtree of n, and the right child of s, if any, takes the place of s
\* with the parent of s for its parent; no node is created and no other
\* node is released, given another value or linked otherwise.
C17_TwoChildErase ==
    [][op'.name = "erase" => \A t \in live, k \in Val :
          LET n == find_node(Heap, root_[t], k)
              s == Leftmost(right[n])
              c == right[s]
          IN (k \in Values(t) /\ left[n] # NIL /\ right[n] # NIL /\ Erase(t, k)) =>
                /\ s = NodeAfter(t, k)
                /\ alloc' = alloc \ {s}
                /\ root_' = root_
                /\ data'[n] = data[s]
                /\ parent'[n] = parent[n]
                /\ left'[n] = left[n]
                /\ right'[n] = IF s = right[n] THEN c ELSE right[n]
                /\ s # right[n] => left'[parent[s]] = c
                /\ c # NIL => parent'[c] = parent[s]
                /\ \A m \in alloc \ {s} :
                      /\ m # n => data'[m] = data[m]
                      /\ m # c => parent'[m] = parent[m]
                      /\ ~(m = parent[s] /\ s # right[n]) => left'[m] = left[m]
                      /\ ~(m = n /\ s = right[n]) => right'[m] = right[m]]_vars

\* erase(2) on the tree 2(1, 3(-, 4)) has just returned: the root's node now
\* holds 3, the node that held 3 is released and its right child, the node
\* of 4, is the root's right child
C17_Witness ==
    /\ op.name = "erase"
    /\ op.kase = "two"
    /\ alloc = {1, 2, 4}
    /\ root_["a"] = 1
    /\ data[1] = 3
    /\ left[1] = 2
    /\ right[1] = 4
    /\ parent[4] = 1

====
